---- MODULE Spec2Model ----
(***************************************************************************)
(* Model of the mcp-client package: the MCPClient session lifecycle        *)
(* (mcp_client.py), the command-line entry point (__main__.py), the        *)
(* interactive loop (chat.py) and the tool-augmented query protocol        *)
(* (handlers.py).                                                          *)
(*                                                                         *)
(* Two specifications share the client operators:                          *)
(*   Spec    - one run of __main__.main                                    *)
(*   SpecAPI - library use: any sequence of the public operations of two   *)
(*             MCPClient instances                                         *)
(***************************************************************************)
EXTENDS Integers, Sequences, FiniteSets, TLC

\* ------------------------------------------------------------------ bounds
MaxSessions == 3
MaxCalls == 2
MaxInputs == 2

Clients == {"c1", "c2"}
MainClient == "c1"
Sids == 1..MaxSessions
\* the class attribute client_session is only annotated, never assigned,
\* until the first successful __aenter__
Unset == 0

\* ------------------------------------------------------------------ state
VARIABLES
    \* MCPClient
    client_session,   \* the class-level slot MCPClient.client_session
    exit_stack,       \* per instance: the resources entered on self.exit_stack
    sess,             \* per session: Disconnected / Connecting / Ready / Closed
    nextSid,          \* the next session the environment hands out
    established,      \* history: per instance, the session its last successful connect returned
    latest,           \* history: the session returned by the last successful connect of any instance
    lastOp,           \* history: the last public operation and how it ended
    issued,           \* history: protocol operations issued by the operation in progress / last run
    \* __main__.main
    pc, mode, exc, printed,
    \* OpenAIQueryHandler and chat.run_chat
    apiKey, handler, inputs, query,
    line,             \* the line input() returned last (None: nothing read, or EOFError)
    hadToolRound,     \* history: an earlier query of this chat left tool turns in its conversation
    \* process_query locals
    messages, result_parts, tool_calls, idx, engineCalls, toolCalls, first, answer,
    second            \* history: the response to the second reasoning-engine call

clientVars == <<client_session, exit_stack, sess, nextSid, established, latest>>
histVars == <<lastOp, issued>>
mainVars == <<pc, mode, exc, printed>>
chatVars == <<apiKey, handler, inputs, query, line, hadToolRound>>
pqVars == <<messages, result_parts, tool_calls, idx, engineCalls, toolCalls, first, answer,
           second>>
vars == <<clientVars, histVars, mainVars, chatVars, pqVars>>

\* ------------------------------------------------------- MCPClient (model)
NotFoundMsg == "Server script not found"
ConnectFailedMsg == "Failed to connect to server"
ConnectOutcomes == {"ok", "spawn_fail", "session_fail", "init_fail"}

Resource(kind, s) == [kind |-> kind, sid |-> s]

Connected(c, error, ret, stack, sessions, next) ==
    [error |-> error, ret |-> ret, stack |-> stack, sess |-> sessions, next |-> next]

\* _connect_to_server without the existence check of lines 46-48
ConnectToServerUnchecked(c, exists, outcome) ==
    Connected(c, "none", nextSid,
              exit_stack[c] \o <<Resource("stdio", nextSid), Resource("session", nextSid)>>,
              [sess EXCEPT ![nextSid] = "Ready"], nextSid + 1)

\* MCPClient._connect_to_server: the path check, then stdio_client and
\* ClientSession entered on the exit stack, then initialize(); any exception
\* of the three is re-raised as RuntimeError and nothing is unwound here.
ConnectToServer(c, exists, outcome) ==
    IF ~exists
    THEN Connected(c, NotFoundMsg, Unset, exit_stack[c], sess, nextSid)
    ELSE CASE outcome = "spawn_fail" ->
                Connected(c, ConnectFailedMsg, Unset, exit_stack[c], sess, nextSid)
           [] outcome = "session_fail" ->
                Connected(c, ConnectFailedMsg, Unset,
                          Append(exit_stack[c], Resource("stdio", nextSid)),
                          [sess EXCEPT ![nextSid] = "Connecting"], nextSid + 1)
           [] outcome = "init_fail" ->
                Connected(c, ConnectFailedMsg, Unset,
                          exit_stack[c] \o <<Resource("stdio", nextSid), Resource("session", nextSid)>>,
                          [sess EXCEPT ![nextSid] = "Connecting"], nextSid + 1)
           [] OTHER ->
                Connected(c, "none", nextSid,
                          exit_stack[c] \o <<Resource("stdio", nextSid), Resource("session", nextSid)>>,
                          [sess EXCEPT ![nextSid] = "Ready"], nextSid + 1)

\* __aexit__ that leaves the resources on the exit stack open
AExitNoClose(stack, sessions) ==
    [error |-> "none", sess |-> sessions]

\* __aexit__ that refuses to run on a stack that was already closed
AExitOnce(stack, sessions) ==
    IF stack = <<>>
    THEN [error |-> "already closed", sess |-> sessions]
    ELSE [error |-> "none",
          sess |-> [s \in Sids |-> IF \E i \in 1..Len(stack) : stack[i].sid = s
                                   THEN "Closed" ELSE sessions[s]]]

\* MCPClient.__aexit__: exit_stack.aclose() exits every resource on the stack
\* (last in, first out) whatever exception is passed in; the stack is empty
\* afterwards, so a second call finds nothing to release
AExit(stack, sessions) ==
    [error |-> "none",
     sess |-> [s \in Sids |-> IF \E i \in 1..Len(stack) : stack[i].sid = s
                              THEN "Closed" ELSE sessions[s]]]

\* client_session kept as an attribute of the instance
SessionOfOwn(c) == established[c]

\* self.client_session: the instance has no attribute of that name, so the
\* lookup falls through to the class attribute
SessionOf(c) == client_session

Op(c, name, s) ==
    [op |-> name, client |-> c, sid |-> s, state |-> sess[s],
     own |-> established[c], latest |-> latest]

Sections == <<"list_tools", "list_prompts", "list_resources">>

\* MCPClient.list_all_members: the three listing methods of the slot's session,
\* called in order by _list_section
ListOps(c) == [i \in 1..Len(Sections) |-> Op(c, Sections[i], SessionOf(c))]

\* the protocol operations of one process_query: _get_tools, then up to n tools
QueryOps(c, s, n) ==
    <<Op(c, "list_tools", s)>> \o [i \in 1..n |-> Op(c, "call_tool", s)]

\* history record of one public operation; tick flips at every operation
Done(op, c, error, s, pre) ==
    [op |-> op, client |-> c, error |-> error, sid |-> s, pre |-> pre,
     tick |-> 1 - lastOp.tick]

\* __aenter__: cls.client_session is assigned only when _connect_to_server returns
EnterEffect(c, r, exists) ==
    /\ client_session' = IF r.error = "none" THEN r.ret ELSE client_session
    /\ exit_stack' = [exit_stack EXCEPT ![c] = r.stack]
    /\ sess' = r.sess
    /\ nextSid' = r.next
    /\ established' = IF r.error = "none" THEN [established EXCEPT ![c] = r.ret]
                      ELSE established
    /\ latest' = IF r.error = "none" THEN r.ret ELSE latest
    /\ lastOp' = Done("enter", c, r.error, IF r.next # nextSid THEN nextSid ELSE Unset,
                      IF exists THEN 1 ELSE 0)

ExitEffect(c, r) ==
    /\ sess' = r.sess
    /\ exit_stack' = [exit_stack EXCEPT ![c] = IF r.error = "none" THEN <<>> ELSE @]
    /\ lastOp' = Done("exit", c, r.error, Unset, Len(exit_stack[c]))
    /\ UNCHANGED <<client_session, nextSid, established, latest>>

\* ------------------------------------------------ library use (SpecAPI)
\* async with MCPClient(path), entered by hand: __aenter__
ApiEnter(c) ==
    /\ nextSid <= MaxSessions
    /\ \E exists \in BOOLEAN, outcome \in ConnectOutcomes :
          EnterEffect(c, ConnectToServer(c, exists, outcome), exists)
    /\ issued' = <<>>
    /\ UNCHANGED <<mainVars, chatVars, pqVars>>

\* __aexit__
ApiExit(c) ==
    /\ ExitEffect(c, AExit(exit_stack[c], sess))
    /\ issued' = <<>>
    /\ UNCHANGED <<mainVars, chatVars, pqVars>>

\* list_all_members; reading self.client_session before any __aenter__
\* assigned the class attribute raises AttributeError at line 87
ApiListAllMembers(c) ==
    /\ IF SessionOf(c) = Unset
       THEN /\ issued' = <<>>
            /\ lastOp' = Done("list_all_members", c, "AttributeError", Unset, 0)
       ELSE /\ issued' = ListOps(c)
            /\ lastOp' = Done("list_all_members", c, "none", SessionOf(c), 0)
    /\ UNCHANGED <<clientVars, mainVars, chatVars, pqVars>>

\* run_chat: the handler keeps the session read from the slot at line 121;
\* without a credential the constructor raises and run_chat prints it; the
\* chat then runs queries, each issuing QueryOps on the handler's session
ApiRunChat(c) ==
    /\ \E key \in BOOLEAN, ran \in BOOLEAN, n \in 0..MaxCalls :
         IF SessionOf(c) = Unset
         THEN /\ issued' = <<>>
              /\ lastOp' = Done("run_chat", c, "AttributeError", Unset, 0)
         ELSE IF ~key
         THEN /\ issued' = <<>>
              /\ lastOp' = Done("run_chat", c, "none", SessionOf(c), 0)
         ELSE /\ issued' = IF ran THEN QueryOps(c, SessionOf(c), n) ELSE <<>>
              /\ lastOp' = Done("run_chat", c, "none", SessionOf(c), 1)
    /\ UNCHANGED <<clientVars, mainVars, chatVars, pqVars>>


\* ------------------------------------------------ Python values and strings
\* A string is the sequence of its pieces; None and "" are both falsy.
None == [isNone |-> TRUE, val |-> <<>>]
Str(s) == [isNone |-> FALSE, val |-> s]
Truthy(x) == ~x.isNone /\ x.val # <<>>
\* x or ""
OrEmpty(x) == IF Truthy(x) THEN x.val ELSE <<>>

RECURSIVE Join(_, _)
\* sep.join(parts)
Join(parts, sep) ==
    IF parts = <<>> THEN <<>>
    ELSE IF Len(parts) = 1 THEN parts[1]
    ELSE parts[1] \o sep \o Join(Tail(parts), sep)

NL == <<"\n">>
Quote == "\""

RECURSIVE ParseMembers(_, _)
\* the members of a JSON object of string values, from position i to the
\* closing brace: "k":"v" ( , "k":"v" )* }
ParseMembers(s, i) ==
    IF /\ i + 7 <= Len(s)
       /\ s[i] = Quote /\ s[i + 2] = Quote /\ s[i + 3] = ":"
       /\ s[i + 4] = Quote /\ s[i + 6] = Quote
       /\ s[i + 1] \notin {Quote, "{", "}", ":", ","}
       /\ s[i + 5] \notin {Quote, "{", "}", ":", ","}
    THEN IF s[i + 7] = "}" /\ i + 7 = Len(s)
         THEN [ok |-> TRUE, doc |-> << <<s[i + 1], s[i + 5]>> >>]
         ELSE IF s[i + 7] = ","
         THEN LET rest == ParseMembers(s, i + 8) IN
              [ok |-> rest.ok, doc |-> << <<s[i + 1], s[i + 5]>> >> \o rest.doc]
         ELSE [ok |-> FALSE, doc |-> <<>>]
    ELSE [ok |-> FALSE, doc |-> <<>>]

\* json.loads on the text of an arguments object: ok is FALSE where
\* json.loads raises JSONDecodeError
JsonLoads(s) ==
    IF s = <<"{", "}">> THEN [ok |-> TRUE, doc |-> <<>>]
    ELSE IF Len(s) >= 2 /\ s[1] = "{" THEN ParseMembers(s, 2)
    ELSE [ok |-> FALSE, doc |-> <<>>]

RECURSIVE ReprItems(_)
ReprItems(doc) ==
    IF doc = <<>> THEN <<>>
    ELSE <<"'", doc[1][1], "'", ": ", "'", doc[1][2], "'">>
         \o (IF Len(doc) > 1 THEN <<", ">> ELSE <<>>) \o ReprItems(Tail(doc))

\* str(dict), as the f-string of line 113 formats tool_args
PyRepr(doc) == <<"{">> \o ReprItems(doc) \o <<"}">>

\* ----------------------------------------------- inputs of the environment
ToolNames == {"echo", "add"}
Texts == {"Sure."}
ValidArgs == <<"{", Quote, "text", Quote, ":", Quote, "hi", Quote, "}">>
MalformedArgs == <<"{", Quote, "text">>
ArgChoices == {None, Str(ValidArgs), Str(MalformedArgs)}
ContentChoices == {None, Str(<<>>)} \cup {Str(<<t>>) : t \in Texts}

\* the tool_calls of a response: None and [] are both falsy and are both
\* the empty sequence here; the i-th invocation carries the i-th correlation id
ToolCallLists ==
    UNION {{[i \in 1..k |-> [id |-> i, name |-> f[i][1], arguments |-> f[i][2]]] :
               f \in [1..k -> ToolNames \X ArgChoices]} : k \in 0..MaxCalls}

\* what session.call_tool does: returns content parts, or raises
ToolOutcomes ==
    {[raised |-> FALSE, parts |-> <<>>, msg |-> ""],
     [raised |-> FALSE, parts |-> <<"hi">>, msg |-> ""],
     [raised |-> TRUE, parts |-> <<>>, msg |-> "tool failed"]}

\* the tool_calls a response to the second call may carry
SecondToolCalls ==
    {<<>>, <<[id |-> 1, name |-> "echo", arguments |-> Str(ValidArgs)]>>}

\* lines typed at the prompt, as sequences of pieces
Lines ==
    {<<>>, <<" ">>, <<"quit">>, <<" ", "QUIT", " ">>,
     <<" ", "What tools are available?">>}

\* ------------------------------------------------------- OpenAIQueryHandler
Turn(role, content, calls, id) ==
    [role |-> role, content |-> content, tool_calls |-> calls, tool_call_id |-> id]

Executed(raised, called, args, log, message) ==
    [raised |-> raised, called |-> called, args |-> args, log |-> log, message |-> message]

\* _execute_tool with unparsable arguments taken as an empty document, for
\* comparison: with it in place of ExecuteTool, C2, C3 and C4 below hold
ExecuteToolEmptyOnError(tc, outcome) ==
    LET parsed == JsonLoads(IF Truthy(tc.arguments) THEN tc.arguments.val ELSE <<"{", "}">>)
        doc == IF parsed.ok THEN parsed.doc ELSE <<>>
    IN  IF outcome.raised
        THEN Executed(FALSE, TRUE, doc, <<"[", "Error: ", outcome.msg, "]">>,
                      Turn("tool", <<"Error: ", outcome.msg>>, <<>>, tc.id))
        ELSE Executed(FALSE, TRUE, doc,
                      <<"[Used ", tc.name, "(">> \o PyRepr(doc) \o <<")]">>,
                      Turn("tool", IF outcome.parts # <<>> THEN <<outcome.parts[1]>> ELSE <<>>,
                           <<>>, tc.id))

\* _execute_tool with a tool turn that does not carry the invocation's id
ExecuteToolWrongId(tc, outcome) ==
    LET parsed == JsonLoads(IF Truthy(tc.arguments) THEN tc.arguments.val ELSE <<"{", "}">>)
    IN  IF ~parsed.ok
        THEN Executed(TRUE, FALSE, <<>>, <<>>, Turn("tool", <<>>, <<>>, 0))
        ELSE IF outcome.raised
        THEN Executed(FALSE, TRUE, parsed.doc, <<"[", "Error: ", outcome.msg, "]">>,
                      Turn("tool", <<"Error: ", outcome.msg>>, <<>>, 0))
        ELSE Executed(FALSE, TRUE, parsed.doc,
                      <<"[Used ", tc.name, "(">> \o PyRepr(parsed.doc) \o <<")]">>,
                      Turn("tool", IF outcome.parts # <<>> THEN <<outcome.parts[1]>> ELSE <<>>,
                           <<>>, 0))

\* OpenAIQueryHandler._execute_tool: json.loads(arguments or "{}") runs before
\* the try block, so JSONDecodeError escapes; call_tool runs inside it, so
\* its exception becomes the content "Error: e" and the log "[Error: e]"
ExecuteTool(tc, outcome) ==
    LET parsed == JsonLoads(IF Truthy(tc.arguments) THEN tc.arguments.val ELSE <<"{", "}">>)
    IN  IF ~parsed.ok
        THEN Executed(TRUE, FALSE, <<>>, <<>>, Turn("tool", <<>>, <<>>, tc.id))
        ELSE IF outcome.raised
        THEN Executed(FALSE, TRUE, parsed.doc, <<"[", "Error: ", outcome.msg, "]">>,
                      Turn("tool", <<"Error: ", outcome.msg>>, <<>>, tc.id))
        ELSE Executed(FALSE, TRUE, parsed.doc,
                      <<"[Used ", tc.name, "(">> \o PyRepr(parsed.doc) \o <<")]">>,
                      Turn("tool", IF outcome.parts # <<>> THEN <<outcome.parts[1]>> ELSE <<>>,
                           <<>>, tc.id))

\* the return value without the "Assistant: " prefix
FormatAnswerBare(parts) == Join(parts, NL)

\* the return value with the parts run together
FormatAnswerNoSeparator(parts) == <<"Assistant: ">> \o Join(parts, <<>>)

\* line 71: "Assistant: " + "\n".join(result_parts)
FormatAnswer(parts) == <<"Assistant: ">> \o Join(parts, NL)


NoResponse == [got |-> FALSE, content |-> None, tool_calls |-> <<>>]
Response(content, calls) == [got |-> TRUE, content |-> content, tool_calls |-> calls]
EngineCall(withTools, conversation) == [tools |-> withTools, conversation |-> conversation]

\* ------------------------------------------------------------ chat.run_chat
Whitespace == {" ", "\t"}

RECURSIVE LStrip(_)
LStrip(s) == IF s # <<>> /\ s[1] \in Whitespace THEN LStrip(Tail(s)) ELSE s

RECURSIVE RStrip(_)
RStrip(s) ==
    IF s # <<>> /\ s[Len(s)] \in Whitespace THEN RStrip(SubSeq(s, 1, Len(s) - 1)) ELSE s

\* str.strip()
Strip(s) == LStrip(RStrip(s))

LowerPiece(t) == CASE t = "QUIT" -> "quit" [] t = "Quit" -> "quit" [] OTHER -> t

\* a comparison that keeps the case of the line
LowerIdentity(s) == s

\* str.lower()
Lower(s) == [i \in 1..Len(s) |-> LowerPiece(s[i])]

QuitLines == {l \in Lines : Lower(Strip(l)) = <<"quit">>}

\* an except clause that shows what the failed query had gathered
CaughtPartial(name) ==
    /\ exc' = name
    /\ printed' = << NL \o FormatAnswer(result_parts) >>
    /\ answer' = Str(FormatAnswer(result_parts))
    /\ pc' = "chat"

\* an except clause that ends the loop
CaughtBreaks(name) ==
    /\ exc' = name
    /\ printed' = << <<"\nError: ", name>> >>
    /\ answer' = None
    /\ pc' = "aexit"

\* the except clause of the chat loop: one printed line, back to the prompt
Caught(name) ==
    /\ exc' = name
    /\ printed' = << <<"\nError: ", name>> >>
    /\ answer' = None
    /\ pc' = "chat"

\* ---------------------------------------------------- one run of main (Spec)
\* __main__.main, lines 8-12
MainCheckPath ==
    /\ pc = "main"
    /\ \E exists \in BOOLEAN :
         IF exists
         THEN pc' = "enter" /\ printed' = printed
         ELSE pc' = "done" /\ printed' = << <<"Error: Server script not found">> >>
    /\ UNCHANGED <<clientVars, histVars, mode, exc, chatVars, pqVars>>

\* async with MCPClient(...) as client: __aenter__; a RuntimeError is printed
\* by the except clause of line 25, and __aexit__ does not run
MainEnter ==
    /\ pc = "enter"
    /\ \E exists \in BOOLEAN, outcome \in ConnectOutcomes :
         LET r == ConnectToServer(MainClient, exists, outcome) IN
         /\ EnterEffect(MainClient, r, exists)
         /\ IF r.error = "none"
            THEN pc' = "body" /\ printed' = printed
            ELSE pc' = "done" /\ printed' = << <<r.error>> >>
    /\ UNCHANGED <<issued, mode, exc, chatVars, pqVars>>

\* the sections whose listing raises, as a number: bit i - 1 is section i
FailingCode(failing) ==
    (IF 1 \in failing THEN 1 ELSE 0) + (IF 2 \in failing THEN 2 ELSE 0)
    + (IF 3 \in failing THEN 4 ELSE 0)

\* the first section of the set, Len(Sections) + 1 for the empty set
FirstFailing(failing) ==
    IF failing = {} THEN Len(Sections) + 1
    ELSE CHOOSE i \in failing : \A j \in failing : i <= j

\* a listing that stops at the first section that fails
ListAllMembersAbort(c, failing) ==
    LET n == IF FirstFailing(failing) <= Len(Sections) THEN FirstFailing(failing)
             ELSE Len(Sections)
    IN  [ops |-> SubSeq(ListOps(c), 1, n),
         printed |-> [i \in 1..n |->
                        <<Sections[i], IF i \in failing THEN "Error" ELSE "listed">>]]

\* list_all_members: the loop of lines 92-93 calls _list_section for each
\* section in turn; _list_section (lines 97-115) requests the section and
\* prints its items, or "Error - e" when the request raises
ListAllMembers(c, failing) ==
    [ops |-> ListOps(c),
     printed |-> [i \in 1..Len(Sections) |->
                    <<Sections[i], IF i \in failing THEN "Error" ELSE "listed">>]]

\* args.members: list_all_members; _list_section reports a failing section
\* and the loop goes on to the next
MainMembers ==
    /\ pc = "body" /\ mode = "members"
    /\ \E failing \in SUBSET (1..Len(Sections)) :
         LET r == ListAllMembers(MainClient, failing) IN
         /\ printed' = r.printed
         /\ issued' = r.ops
         /\ lastOp' = Done("list_all_members", MainClient, "none",
                           SessionOf(MainClient), FailingCode(failing))
    /\ pc' = "aexit"
    /\ UNCHANGED <<clientVars, mode, exc, chatVars, pqVars>>

\* a run_chat whose handler is built without looking at the credential
MainRunChatNoKeyCheck ==
    /\ pc = "body" /\ mode = "chat"
    /\ handler' = SessionOf(MainClient)
    /\ printed' = << <<"MCP Client's Chat Started!">> >>
    /\ pc' = "chat"
    /\ lastOp' = Done("run_chat", MainClient, "none", SessionOf(MainClient), 0)
    /\ UNCHANGED <<clientVars, issued, mode, exc, apiKey, inputs, query, line,
                   hadToolRound, pqVars>>

\* args.chat: MCPClient.run_chat builds the handler; without OPENAI_API_KEY
\* the constructor raises RuntimeError, which run_chat prints
MainRunChat ==
    /\ pc = "body" /\ mode = "chat"
    /\ IF apiKey
       THEN /\ handler' = SessionOf(MainClient)
            /\ printed' = << <<"MCP Client's Chat Started!">> >>
            /\ pc' = "chat"
       ELSE /\ handler' = handler
            /\ printed' = << <<"Error: OPENAI_API_KEY environment variable not set">> >>
            /\ pc' = "aexit"
    /\ lastOp' = Done("run_chat", MainClient, "none", SessionOf(MainClient), 0)
    /\ UNCHANGED <<clientVars, issued, mode, exc, apiKey, inputs, query, line,
                   hadToolRound, pqVars>>

\* the record of a query is dropped once its frame is gone: when the loop
\* reads again, and when an interrupt unwinds process_query and run_chat
ClearQuery ==
    /\ result_parts' = <<>>
    /\ tool_calls' = <<>>
    /\ idx' = 1
    /\ engineCalls' = <<>>
    /\ toolCalls' = <<>>
    /\ first' = NoResponse
    /\ second' = NoResponse
    /\ answer' = None

\* a loop whose queries share one conversation
ChatInputKeepsConversation ==
    /\ pc = "chat"
    /\ \E typed \in (IF inputs < MaxInputs THEN Lines ELSE QuitLines) :
         LET q == Strip(typed) IN
         /\ inputs' = IF inputs < MaxInputs THEN inputs + 1 ELSE inputs
         /\ line' = Str(typed)
         /\ query' = q
         /\ hadToolRound' = (hadToolRound \/ Len(messages) > 1)
         /\ exc' = "none"
         /\ issued' = <<>>
         /\ ClearQuery
         /\ IF q = <<>>
            THEN /\ printed' = <<>>
                 /\ messages' = messages
                 /\ pc' = pc
            ELSE IF Lower(q) = <<"quit">>
            THEN /\ printed' = << <<"Goodbye!">> >>
                 /\ messages' = <<>>
                 /\ pc' = "aexit"
            ELSE /\ printed' = <<>>
                 /\ messages' = Append(messages, Turn("user", q, <<>>, 0))
                 /\ pc' = "pq_tools"
    /\ UNCHANGED <<clientVars, lastOp, mode, apiKey, handler>>

\* one pass of the chat loop up to the call of process_query (which starts
\* with line 25); after MaxInputs lines the user types quit
ChatInput ==
    /\ pc = "chat"
    /\ \E typed \in (IF inputs < MaxInputs THEN Lines ELSE QuitLines) :
         LET q == Strip(typed) IN
         /\ inputs' = IF inputs < MaxInputs THEN inputs + 1 ELSE inputs
         /\ line' = Str(typed)
         /\ query' = q
         /\ hadToolRound' = (hadToolRound \/ Len(messages) > 1)
         /\ exc' = "none"
         /\ issued' = <<>>
         /\ ClearQuery
         /\ IF q = <<>>
            THEN /\ printed' = <<>>
                 /\ messages' = <<>>
                 /\ pc' = pc
            ELSE IF Lower(q) = <<"quit">>
            THEN /\ printed' = << <<"Goodbye!">> >>
                 /\ messages' = <<>>
                 /\ pc' = "aexit"
            ELSE /\ printed' = <<>>
                 /\ messages' = <<Turn("user", q, <<>>, 0)>>
                 /\ pc' = "pq_tools"
    /\ UNCHANGED <<clientVars, lastOp, mode, apiKey, handler>>

\* input() raising EOFError (end of standard input): the except clause of
\* line 20 prints it and the loop asks again
ChatInputError ==
    /\ pc = "chat"
    /\ inputs < MaxInputs
    /\ inputs' = inputs + 1
    /\ line' = None
    /\ printed' = << <<"\nError: ", "EOFError">> >>
    /\ hadToolRound' = (hadToolRound \/ Len(messages) > 1)
    /\ exc' = "none"
    /\ issued' = <<>>
    /\ messages' = <<>>
    /\ ClearQuery
    /\ UNCHANGED <<clientVars, lastOp, pc, mode, apiKey, handler, query>>

\* _get_tools: list_tools on the handler's session; its exception leaves
\* process_query
PQGetTools ==
    /\ pc = "pq_tools"
    /\ issued' = Append(issued, Op(MainClient, "list_tools", handler))
    /\ \/ pc' = "pq_first" /\ UNCHANGED <<exc, printed, answer>>
       \/ Caught("list_tools failed")
    /\ UNCHANGED <<clientVars, lastOp, mode, chatVars, messages, result_parts,
                   tool_calls, idx, engineCalls, toolCalls, first, second>>

\* lines 26-51: the first reasoning-engine call, with the tool list
PQFirstCall ==
    /\ pc = "pq_first"
    /\ engineCalls' = Append(engineCalls, EngineCall(TRUE, messages))
    /\ \/ /\ Caught("engine call failed")
          /\ UNCHANGED <<messages, result_parts, tool_calls, idx, first>>
       \/ \E content \in ContentChoices, calls \in ToolCallLists :
            /\ first' = Response(content, calls)
            /\ result_parts' = IF Truthy(content) THEN <<content.val>> ELSE <<>>
            /\ tool_calls' = calls
            /\ idx' = 1
            /\ IF calls # <<>>
               THEN /\ messages' = Append(messages,
                                          Turn("assistant", OrEmpty(content), calls, 0))
                    /\ pc' = "pq_exec"
               ELSE /\ messages' = messages
                    /\ pc' = "pq_return"
            /\ UNCHANGED <<exc, printed, answer>>
    /\ UNCHANGED <<clientVars, histVars, mode, chatVars, toolCalls, second>>

\* lines 54-57: one pass of the loop over tool_calls
PQExecuteTool ==
    /\ pc = "pq_exec"
    /\ \E outcome \in ToolOutcomes :
         LET r == ExecuteTool(tool_calls[idx], outcome) IN
         /\ issued' = IF r.called THEN Append(issued, Op(MainClient, "call_tool", handler))
                      ELSE issued
         /\ toolCalls' = IF r.called
                         THEN Append(toolCalls, [id |-> tool_calls[idx].id,
                                                 name |-> tool_calls[idx].name,
                                                 args |-> r.args, failed |-> outcome.raised,
                                                 msg |-> outcome.msg])
                         ELSE toolCalls
         /\ IF r.raised
            THEN /\ Caught("JSONDecodeError")
                 /\ UNCHANGED <<messages, result_parts, idx>>
            ELSE /\ result_parts' = Append(result_parts, r.log)
                 /\ messages' = Append(messages, r.message)
                 /\ idx' = idx + 1
                 /\ pc' = IF idx = Len(tool_calls) THEN "pq_second" ELSE "pq_exec"
                 /\ UNCHANGED <<exc, printed, answer>>
    /\ UNCHANGED <<clientVars, lastOp, mode, chatVars, tool_calls, engineCalls, first,
                   second>>

\* a second call that runs the invocations its response requests
PQSecondCallLoops ==
    /\ pc = "pq_second"
    /\ engineCalls' = Append(engineCalls, EngineCall(FALSE, messages))
    /\ \E content \in ContentChoices, calls \in SecondToolCalls :
         /\ second' = Response(content, calls)
         /\ result_parts' = IF Truthy(content) THEN Append(result_parts, content.val)
                            ELSE result_parts
         /\ tool_calls' = IF calls # <<>> THEN calls ELSE tool_calls
         /\ idx' = IF calls # <<>> THEN 1 ELSE idx
         /\ pc' = IF calls # <<>> THEN "pq_exec" ELSE "pq_return"
    /\ UNCHANGED <<clientVars, histVars, mode, exc, printed, chatVars, messages,
                   toolCalls, first, answer>>

\* lines 60-68: the second reasoning-engine call, without the tool list; only
\* the content of its response is read, whatever tool_calls it carries
PQSecondCall ==
    /\ pc = "pq_second"
    /\ engineCalls' = Append(engineCalls, EngineCall(FALSE, messages))
    /\ \/ /\ Caught("engine call failed")
          /\ UNCHANGED <<result_parts, second>>
       \/ \E content \in ContentChoices, calls \in SecondToolCalls :
            /\ second' = Response(content, calls)
            /\ result_parts' = IF Truthy(content) THEN Append(result_parts, content.val)
                               ELSE result_parts
            /\ pc' = "pq_return"
            /\ UNCHANGED <<exc, printed, answer>>
    /\ UNCHANGED <<clientVars, histVars, mode, chatVars, messages, tool_calls, idx,
                   toolCalls, first>>

\* line 71, and the print of chat.py line 18
PQReturn ==
    /\ pc = "pq_return"
    /\ answer' = Str(FormatAnswer(result_parts))
    /\ printed' = << NL \o FormatAnswer(result_parts) >>
    /\ pc' = "chat"
    /\ UNCHANGED <<clientVars, histVars, mode, exc, chatVars, messages, result_parts,
                   tool_calls, idx, engineCalls, toolCalls, first, second>>

InBody == pc \in {"body", "chat", "pq_tools", "pq_first", "pq_exec", "pq_second", "pq_return"}

\* KeyboardInterrupt or cancellation inside the async with block: not an
\* Exception, so no except clause of the body stops it
Interrupt ==
    /\ InBody
    /\ exc' = "KeyboardInterrupt"
    /\ pc' = "aexit"
    /\ messages' = <<>>
    /\ ClearQuery
    /\ UNCHANGED <<clientVars, histVars, mode, printed, chatVars>>

\* leaving the async with block: __aexit__, on every way out of the body
MainExit ==
    /\ pc = "aexit"
    /\ ExitEffect(MainClient, AExit(exit_stack[MainClient], sess))
    /\ pc' = "done"
    /\ UNCHANGED <<issued, mode, exc, printed, chatVars, pqVars>>

InitClient ==
    /\ client_session = Unset
    /\ exit_stack = [c \in Clients |-> <<>>]
    /\ sess = [s \in Sids |-> "Disconnected"]
    /\ nextSid = 1
    /\ established = [c \in Clients |-> Unset]
    /\ latest = Unset
    /\ lastOp = [op |-> "none", client |-> "none", error |-> "none", sid |-> Unset,
                 pre |-> 0, tick |-> 0]
    /\ issued = <<>>

InitQuery ==
    /\ handler = Unset
    /\ inputs = 0
    /\ query = <<>>
    /\ messages = <<>>
    /\ result_parts = <<>>
    /\ tool_calls = <<>>
    /\ idx = 1
    /\ engineCalls = <<>>
    /\ toolCalls = <<>>
    /\ first = NoResponse
    /\ answer = None
    /\ line = None
    /\ hadToolRound = FALSE
    /\ second = NoResponse

Init ==
    /\ InitClient
    /\ InitQuery
    /\ pc = "main"
    /\ mode \in {"members", "chat"}
    /\ apiKey \in BOOLEAN
    /\ exc = "none"
    /\ printed = <<>>

Next ==
    \/ MainCheckPath
    \/ MainEnter
    \/ MainMembers
    \/ MainRunChat
    \/ ChatInput
    \/ ChatInputError
    \/ PQGetTools
    \/ PQFirstCall
    \/ PQExecuteTool
    \/ PQSecondCall
    \/ PQReturn
    \/ Interrupt
    \/ MainExit

Spec == Init /\ [][Next]_vars

\* the exit status of the process once main is over: asyncio.run(main())
\* returns when main returns, and the interpreter then exits with 0; only
\* what escapes main (an interrupt) ends the process with another status
ExitStatus == IF pc = "done" /\ exc = "KeyboardInterrupt" THEN 1 ELSE 0

InitAPI ==
    /\ InitClient
    /\ InitQuery
    /\ pc = "api"
    /\ mode = "none"
    /\ apiKey = TRUE
    /\ exc = "none"
    /\ printed = <<>>

NextAPI ==
    \/ \E c \in Clients : ApiEnter(c)
    \/ \E c \in Clients : ApiExit(c)
    \/ \E c \in Clients : ApiListAllMembers(c)
    \/ \E c \in Clients : ApiRunChat(c)

SpecAPI == InitAPI /\ [][NextAPI]_vars


\* ------------------------------------------------------------------ claims
\* the arguments text json.loads receives for a requested invocation
ArgText(tc) == IF Truthy(tc.arguments) THEN tc.arguments.val ELSE <<"{", "}">>

Requested == Len(first.tool_calls)
\* process_query has ended, by return or by an exception the chat loop caught
QueryEnded == pc = "chat" /\ first.got
Returned == pc = "chat" /\ first.got /\ ~answer.isNone

RECURSIVE UsedSegments(_)
\* the segments "[Used " ... ")]" of a string, left to right
UsedSegments(s) ==
    IF s = <<>> THEN <<>>
    ELSE IF s[1] = "[Used " /\ \E j \in 1..Len(s) : s[j] = ")]"
    THEN LET j == CHOOSE j \in 1..Len(s) : s[j] = ")]" /\ \A k \in 1..(j - 1) : s[k] # ")]"
         IN  <<SubSeq(s, 1, j)>> \o UsedSegments(SubSeq(s, j + 1, Len(s)))
    ELSE UsedSegments(Tail(s))

InRequestOrder ==
    /\ Len(toolCalls) = Requested
    /\ \A i \in 1..Requested :
         /\ toolCalls[i].id = first.tool_calls[i].id
         /\ toolCalls[i].name = first.tool_calls[i].name

\* The operations process_query issues in a run of main are those QueryOps
\* gives the library-use specification: list_tools, then one call_tool per
\* invocation that reached the session.
QueryOpsAgree ==
    (pc \in {"pq_first", "pq_exec", "pq_second", "pq_return"} \/ QueryEnded) =>
        issued = QueryOps(MainClient, handler, Len(toolCalls))

C2_TwoEngineCallsAndNToolCalls ==
    (QueryEnded /\ Requested >= 1) =>
        /\ Len(engineCalls) = 2
        /\ InRequestOrder
        /\ ((Returned /\ \A i \in 1..Len(toolCalls) : ~toolCalls[i].failed) =>
              UsedSegments(answer.val) =
                [i \in 1..Requested |->
                    <<"[Used ", first.tool_calls[i].name, "(">>
                    \o PyRepr(toolCalls[i].args) \o <<")]">>])

\* C3: a failing tool invocation never raises out of process_query and never
\* aborts its siblings: all N invocations are attempted in order, a failed one
\* contributes the bracketed error text as its log segment and the error text
\* as its tool turn, the second reasoning-engine call is issued and an answer
\* is returned (the reasoning engine itself not failing).
C3_ToolFailureIsIsolated ==
    (QueryEnded /\ Requested >= 1 /\ exc # "engine call failed") =>
        LET offset == IF Truthy(first.content) THEN 1 ELSE 0 IN
        /\ exc = "none"
        /\ InRequestOrder
        /\ Len(engineCalls) = 2
        /\ Returned
        /\ \A i \in 1..Len(toolCalls) :
             toolCalls[i].failed =>
               /\ result_parts[offset + i] = <<"[", "Error: ", toolCalls[i].msg, "]">>
               /\ messages[2 + i].role = "tool"
               /\ messages[2 + i].content = <<"Error: ", toolCalls[i].msg>>

\* C4: a requested invocation whose arguments do not parse is still issued to
\* the server, with an empty document as its arguments; the remaining
\* invocations and the second reasoning-engine call still happen and
\* process_query does not raise (the reasoning engine itself not failing).
C4_UnparsableArgumentsAreEmptyDocument ==
    (QueryEnded /\ exc # "engine call failed"
       /\ \E i \in 1..Requested : ~JsonLoads(ArgText(first.tool_calls[i])).ok) =>
        /\ exc = "none"
        /\ InRequestOrder
        /\ \A i \in 1..Requested :
             ~JsonLoads(ArgText(first.tool_calls[i])).ok => toolCalls[i].args = <<>>
        /\ Len(engineCalls) = 2
        /\ Returned

\* C5: after a failed connect no session is left in Connecting: whatever was
\* opened before the failure has been released when the error reaches the
\* caller.
C5_FailedConnectLeavesNothingOpen ==
    (lastOp.op = "enter" /\ lastOp.error # "none") =>
        /\ \A s \in Sids : sess[s] # "Connecting"
        /\ exit_stack[lastOp.client] = <<>>

\* C6: on every way out of the use of a session that reached Ready (listing
\* or chat completed, tool or reasoning-engine failure, missing credential,
\* an interrupt escaping the async with block) the session has been torn down
\* when main ends.
C6_ReadySessionIsTornDown ==
    pc = "done" =>
        /\ \A s \in Sids : sess[s] # "Ready"
        /\ (established[MainClient] # Unset => sess[established[MainClient]] = "Closed")

C6_Witness ==
    /\ pc = "done"
    /\ exc = "KeyboardInterrupt"
    /\ established[MainClient] # Unset
    /\ sess[established[MainClient]] = "Closed"

\* C7: for any sequence of enter, exit, list_all_members and run_chat, every
\* protocol operation is issued on a session whose handshake has completed
\* and whose teardown has not begun.
C7_OperationsOnlyOnReadySession ==
    \A i \in 1..Len(issued) : issued[i].state = "Ready"

\* C8 (as stated): every protocol operation issued through a client instance
\* that established a session goes to that session, whatever other instances
\* connected or tore down in between.
C8_InstanceUsesItsOwnSession ==
    \A i \in 1..Len(issued) : issued[i].own # Unset => issued[i].sid = issued[i].own

\* C8 (amended): the instances share one class-level slot: every protocol
\* operation issued through any instance goes to the session returned by the
\* most recent successful connect of any instance, and nothing but a
\* successful connect changes the slot.
C8_InstancesShareLatestSession ==
    /\ client_session = latest
    /\ \A i \in 1..Len(issued) : issued[i].sid = issued[i].latest

C8_Witness ==
    /\ issued # <<>>
    /\ issued[1].own # Unset
    /\ issued[1].sid # issued[1].own
    /\ issued[1].sid = established[CHOOSE c \in Clients : c # issued[1].client]

IsOp(name) == lastOp'.tick # lastOp.tick /\ lastOp'.op = name

\* C9: a successful connect takes its session from Disconnected to Ready, a
\* close right after it takes that session to Closed, and a close right after
\* a close of the same instance changes nothing and raises nothing.
C9_ConnectCloseAndCloseAgain ==
    [][ /\ (IsOp("enter") /\ lastOp'.error = "none") =>
              /\ lastOp'.sid # Unset
              /\ sess[lastOp'.sid] = "Disconnected"
              /\ sess'[lastOp'.sid] = "Ready"
              /\ client_session' = lastOp'.sid
        /\ (IsOp("exit") /\ lastOp.op = "enter" /\ lastOp.error = "none"
              /\ lastOp'.client = lastOp.client) =>
              /\ sess'[lastOp.sid] = "Closed"
              /\ lastOp'.error = "none"
        /\ (IsOp("exit") /\ lastOp.op = "exit" /\ lastOp'.client = lastOp.client) =>
              /\ lastOp'.error = "none"
              /\ UNCHANGED clientVars
      ]_vars

C9_Witness ==
    /\ lastOp.op = "exit"
    /\ lastOp.pre = 0
    /\ lastOp.error = "none"
    /\ established[lastOp.client] # Unset
    /\ sess[established[lastOp.client]] = "Closed"

\* C10: a connect on a path that does not exist fails with the not-found
\* error and opens nothing: no session, no transport, no child process.
C10_MissingPathNeverSpawns ==
    [][ (IsOp("enter") /\ lastOp'.pre = 0) =>
          /\ lastOp'.error = NotFoundMsg
          /\ lastOp'.sid = Unset
          /\ UNCHANGED clientVars
      ]_vars

C10_Witness ==
    /\ lastOp.op = "enter"
    /\ lastOp.pre = 0
    /\ lastOp.error = NotFoundMsg
    /\ \E s \in Sids : sess[s] = "Ready"


\* the log segment the i-th executed invocation is to contribute
ExpectedLog(i) ==
    IF toolCalls[i].failed
    THEN <<"[", "Error: ", toolCalls[i].msg, "]">>
    ELSE <<"[Used ", toolCalls[i].name, "(">> \o PyRepr(toolCalls[i].args) \o <<")]">>

\* first-call text if present, one log per executed invocation, second-call
\* text if present
ExpectedSegments ==
    (IF Truthy(first.content) THEN <<first.content.val>> ELSE <<>>)
    \o [i \in 1..Len(toolCalls) |-> ExpectedLog(i)]
    \o (IF Truthy(second.content) THEN <<second.content.val>> ELSE <<>>)

StartsWith(s, prefix) ==
    Len(s) >= Len(prefix) /\ SubSeq(s, 1, Len(prefix)) = prefix

C12_AtMostTwoCallsOneToolRound ==
    /\ Len(engineCalls) <= 2
    /\ Len(toolCalls) <= Requested
    /\ (Len(engineCalls) >= 1 => engineCalls[1].tools)
    /\ (Len(engineCalls) = 2 => ~engineCalls[2].tools)
    /\ (second.got =>
          /\ Len(engineCalls) = 2
          /\ Len(toolCalls) = Requested
          /\ issued = QueryOps(MainClient, handler, Requested)
          /\ pc \in {"pq_return", "chat"})

C12_Witness ==
    /\ Returned
    /\ second.got
    /\ second.tool_calls # <<>>
    /\ Len(toolCalls) = 1

\* C13: a failure of the first reasoning-engine call ends process_query with
\* an error before any tool call; a failure of the second ends it with an
\* error, and nothing gathered so far (first-call text, tool logs) is
\* returned or printed: the caller sees the error line alone.
C13_EngineFailureGivesNoPartialAnswer ==
    (pc = "chat" /\ exc = "engine call failed") =>
        /\ answer.isNone
        /\ printed = << <<"\nError: ", "engine call failed">> >>
        /\ (~first.got =>
              /\ Len(engineCalls) = 1
              /\ toolCalls = <<>>
              /\ \A i \in 1..Len(issued) : issued[i].op # "call_tool")
        /\ (first.got => Len(engineCalls) = 2 /\ Len(toolCalls) = Requested)

C13_Witness ==
    /\ pc = "chat"
    /\ exc = "engine call failed"
    /\ first.got
    /\ Len(result_parts) >= 2
    /\ answer.isNone


PQStates == {"chat", "pq_tools", "pq_first", "pq_exec", "pq_second", "pq_return"}

\* C14: without the credential the failure surfaces when the orchestrator is
\* constructed, never mid-query: no line is read, no query processed, no
\* reasoning-engine call, catalog fetch or tool call is made, and run_chat
\* ends with the credential error as its only output.
C14_MissingCredentialStopsBeforeAnyQuery ==
    (~apiKey /\ mode = "chat") =>
        /\ pc \notin PQStates
        /\ handler = Unset
        /\ inputs = 0 /\ line.isNone /\ query = <<>>
        /\ engineCalls = <<>> /\ toolCalls = <<>> /\ issued = <<>>
        /\ ((lastOp.op = "run_chat" \/ (lastOp.op = "exit" /\ exc = "none")) =>
              printed = << <<"Error: OPENAI_API_KEY environment variable not set">> >>)

C14_Witness ==
    /\ ~apiKey
    /\ mode = "chat"
    /\ lastOp.op = "exit"
    /\ pc = "done"
    /\ exc = "none"
    /\ printed # <<>>

\* whether section i failed in the listing that lastOp records
SectionFailed(i) == (lastOp.pre \div (2 ^ (i - 1))) % 2 = 1

\* C15: list_all_members requests tools, prompts and resources, all three and
\* in that order, whichever of them fail, and a failure is reported for its
\* own section only.
C15_AllSectionsRequestedInOrder ==
    (lastOp.op = "list_all_members" /\ lastOp.error = "none") =>
        /\ Len(issued) = 3
        /\ issued[1].op = "list_tools"
        /\ issued[2].op = "list_prompts"
        /\ issued[3].op = "list_resources"
        /\ Len(printed) = 3
        /\ \A i \in 1..3 :
             /\ printed[i][1] = issued[i].op
             /\ (printed[i][2] = "Error") = SectionFailed(i)
             /\ (printed[i][2] = "listed") = ~SectionFailed(i)

C15_Witness ==
    /\ lastOp.op = "list_all_members"
    /\ SectionFailed(1) /\ ~SectionFailed(2) /\ SectionFailed(3)
    /\ Len(issued) = 3
    /\ printed[2][2] = "listed"

\* a run of main that ended on a missing server path or a failed connection
StartupFailed ==
    /\ pc = "done"
    /\ \/ lastOp.op = "none"
       \/ lastOp.op = "enter" /\ lastOp.error # "none"

\* C17: when the server path does not exist or the connection fails, the
\* command prints a human-readable message and exits with a non-zero status.
C17_StartupFailureExitsNonZero ==
    StartupFailed => (printed # <<>> /\ ExitStatus # 0)


InQuery == pc \in {"pq_tools", "pq_first", "pq_exec", "pq_second", "pq_return"}

\* a step in which process_query raises an Exception
QueryFails == InQuery /\ exc' # exc /\ exc' # "KeyboardInterrupt"

\* a step in which the loop reads a line
ReadsLine == pc = "chat" /\ exc' # "KeyboardInterrupt" /\ ~line'.isNone

\* the spellings of the quit command
QuitWords == {<<"quit">>, <<"QUIT">>, <<"Quit">>}

\* C16: a query that fails inside the chat loop produces exactly one printed
\* error line and leaves the loop running: the loop is back at its prompt
\* with the same handler, and the next line it reads is processed like any
\* other, starting from a conversation of that line's user turn alone.
C16_FailingQueryKeepsTheLoop ==
    [][ /\ QueryFails =>
            /\ pc' = "chat"
            /\ printed' = << <<"\nError: ", exc'>> >>
            /\ answer'.isNone
            /\ handler' = handler /\ inputs' = inputs
            /\ UNCHANGED clientVars
        /\ (ReadsLine /\ exc # "none" /\ Strip(line'.val) # <<>>
              /\ Strip(line'.val) \notin QuitWords) =>
            /\ pc' = "pq_tools"
            /\ exc' = "none"
            /\ messages' = <<Turn("user", Strip(line'.val), <<>>, 0)>>
            /\ engineCalls' = <<>> /\ toolCalls' = <<>> /\ issued' = <<>> ]_vars

C16_Witness ==
    /\ pc = "chat"
    /\ exc = "JSONDecodeError"
    /\ printed = << <<"\nError: ", "JSONDecodeError">> >>
    /\ inputs < MaxInputs
    /\ Len(messages) > 2

\* C18: no conversation state survives from one query to the next: the first
\* reasoning-engine call of a query carries exactly one turn, the user turn
\* holding that query, whatever the queries before it did.
C18_FirstCallHoldsOnlyTheQuery ==
    Len(engineCalls) >= 1 =>
        /\ engineCalls[1] = EngineCall(TRUE, <<Turn("user", query, <<>>, 0)>>)
        /\ query = Strip(line.val)
        /\ messages[1] = Turn("user", query, <<>>, 0)

C18_Witness ==
    /\ hadToolRound
    /\ Len(engineCalls) >= 1
    /\ inputs = 2

\* C19: the tool turn of invocation i is in the conversation before
\* invocation i+1 is issued, and the conversation of the second call is
\* exactly the user turn, one assistant turn carrying all N invocations of
\* the first response, and N tool turns in request order, the i-th with the
\* i-th correlation id.
C19_ToolTurnsInRequestOrder ==
    /\ (first.got /\ first.tool_calls # <<>>) =>
         /\ Len(messages) = 2 + Len(toolCalls)
         /\ \A i \in 1..Len(toolCalls) :
              /\ messages[2 + i].role = "tool"
              /\ messages[2 + i].tool_call_id = toolCalls[i].id
              /\ toolCalls[i].id = first.tool_calls[i].id
    /\ Len(engineCalls) = 2 =>
         LET conv == engineCalls[2].conversation IN
         /\ Len(conv) = 2 + Requested
         /\ conv[1] = Turn("user", query, <<>>, 0)
         /\ conv[2] = Turn("assistant", OrEmpty(first.content), first.tool_calls, 0)
         /\ \A i \in 1..Requested :
              /\ conv[2 + i].role = "tool"
              /\ conv[2 + i].tool_calls = <<>>
              /\ conv[2 + i].tool_call_id = first.tool_calls[i].id
              /\ (toolCalls[i].failed =>
                    conv[2 + i].content = <<"Error: ", toolCalls[i].msg>>)

C19_Witness ==
    /\ Len(engineCalls) = 2
    /\ Requested = 2
    /\ toolCalls[1].failed
    /\ ~toolCalls[2].failed

\* C20: the loop returns normally only after a line that, trimmed and
\* lowercased, is "quit"; a blank line and a quit line are never passed to
\* process_query, and every other line is passed to it exactly once, as it
\* is read.
C20_LoopEndsOnQuitOnly ==
    [][ /\ ReadsLine =>
            LET q == Strip(line'.val) IN
            /\ (pc' = "aexit") = (q \in QuitWords)
            /\ (pc' = "chat") = (q = <<>>)
            /\ (pc' = "pq_tools") = (q # <<>> /\ q \notin QuitWords)
            /\ pc' = "pq_tools" => (query' = q /\ messages' = <<Turn("user", q, <<>>, 0)>>)
            /\ pc' # "pq_tools" => messages' = <<>>
        /\ (pc = "chat" /\ pc' = "aexit" /\ exc' # "KeyboardInterrupt") => ReadsLine
        /\ (pc' = "pq_tools" /\ pc # "pq_tools") => ReadsLine ]_vars

C20_Witness ==
    /\ pc = "aexit"
    /\ exc = "none"
    /\ line = Str(<<" ", "QUIT", " ">>)
    /\ hadToolRound

====
